---------------------------- MODULE Spec2Model ----------------------------
(***************************************************************************)
(* Model of the object tracker in src/tracking.py.                         *)
(*                                                                         *)
(* Python objects are modelled by a heap: `objs` is the sequence of every  *)
(* TrackedObject ever created, and Frames and the log hold indices into    *)
(* it, so that two references to one object stay one object.  A `tracks`   *)
(* list is never changed in place (observe builds a fresh list and binds   *)
(* both objects to it), so a list is modelled by its value.                *)
(*                                                                         *)
(* Timestamps are floats in the program.  The model counts time in ticks   *)
(* of 1/TicksPerSecond second, so that a lifetime need not be a whole      *)
(* number of seconds and int() in time_alive really truncates.             *)
(***************************************************************************)
EXTENDS Integers, Sequences, FiniteSets, TLC

\* ---------------------------------------------------------------- bounds
MaxRecords == 3
MaxTime == 3
TicksPerSecond == 2
MaxWindow == 1
MaxMinSeconds == 1
MaxLowBlocks == 1
MaxExtra == 1
MaxHeap == 3
MaxTrack == 4
MaxSameRecords == 4
MaxSameTime == 5
MaxX1 == 2
MaxX2 == 5
MaxY == 2

\* ------------------------------------------------------ program constants
DefaultMaxFrames == 150
IouNum == 4
IouDen == 5
MomentumScale == 1
IdBlock == 100
IdLimit == 1000
NoneId == -1

\* ------------------------------------------------------------ the inputs
B0 == <<0, 0, 9, 0>>
B1 == <<1, 0, 10, 0>>
B2 == <<2, 0, 11, 0>>

\* The `windows` field of a record, already split into integers.
WindowsChoices ==
    { <<>>, B0, B1 \o <<7>>, B2, B0 \o B2, B0 \o B1 }

\* The timestamps of the records, in ticks: 0, and the ticks from one second
\* on, so that lifetimes below, at and above a whole second all occur.
Times == {0} \cup (TicksPerSecond..MaxTime)

Records ==
    [no_faces : {0, 1}, windows : WindowsChoices, date_created : Times]

\* --------------------------------------------------------------- helpers
Min(a, b) == IF a <= b THEN a ELSE b
Max(a, b) == IF a >= b THEN a ELSE b
Range(s) == { s[i] : i \in 1..Len(s) }
SetMin(S) == CHOOSE x \in S : \A y \in S : x <= y

\* Python's int() on a float: truncation towards zero (value n/d, d > 0).
IntTrunc(n, d) == IF n >= 0 THEN n \div d ELSE -((-n) \div d)

\* ------------------------------------------------------------ _Footprint
Footprint(coords, timestamp) == [coords |-> coords, timestamp |-> timestamp]

\* list.sort() with _Footprint.__lt__: a stable sort by timestamp, which is
\* the footprints of the smallest timestamp in their order in the list, then
\* those of the next timestamp, and so on.
RECURSIVE SortByTimes(_, _)
SortByTimes(s, times) ==
    IF times = {} THEN <<>>
    ELSE LET t == SetMin(times)
         IN SelectSeq(s, LAMBDA fp : fp.timestamp = t)
            \o SortByTimes(s, times \ {t})

\* Mutant of SortTracks: the concatenated list left unsorted.
SortTracks_Unsorted(s) == s

SortTracks(s) == SortByTimes(s, { s[i].timestamp : i \in 1..Len(s) })

\* --------------------------------------------------------- TrackedObject
NewTrackedObject(coords, date_created, oid) ==
    [coords |-> coords, id |-> oid, new_observation |-> TRUE,
     tracks |-> <<Footprint(coords, date_created)>>]

date_created(o) == o.tracks[1].timestamp
end_time(o) == o.tracks[Len(o.tracks)].timestamp
\* Mutant of time_alive: the lifetime rounded up instead of truncated.
time_alive_RoundedUp(o) ==
    (end_time(o) - date_created(o) + TicksPerSecond - 1) \div TicksPerSecond

time_alive(o) == IntTrunc(end_time(o) - date_created(o), TicksPerSecond)

\* speed is None, or sqrt(d2) / dt with dt in seconds.  SpeedTruthy is the
\* truth value Python gives it: None and 0.0 are false.  tracks is sorted, so
\* dt > 0 whenever the speed is defined.
SpeedDefined(o) == end_time(o) # date_created(o) /\ Len(o.coords) > 0
SpeedD2(o) ==
    LET start == o.tracks[1].coords
        end == o.tracks[Len(o.tracks)].coords
    IN (end[1] - start[1]) * (end[1] - start[1])
       + (end[2] - start[2]) * (end[2] - start[2])
SpeedDt(o) == end_time(o) - date_created(o)
SpeedTruthy(o) == SpeedDefined(o) /\ SpeedD2(o) # 0


\* Mutant of Observe: the comparison of the creation dates turned round, so
\* that the earlier object adopts the identifier of the later one.
Observe_LaterWins(h, self, other) ==
    LET s == h.objs[self]
        o == h.objs[other]
    IN IF ~s.new_observation /\ ~o.new_observation THEN h
       ELSE
         LET tracks == SortTracks(o.tracks \o s.tracks)
             s1 == IF date_created(o) > date_created(s)
                   THEN [s EXCEPT !.new_observation = FALSE, !.id = o.id]
                   ELSE s
             o1 == IF date_created(o) > date_created(s)
                   THEN o
                   ELSE [o EXCEPT !.new_observation = FALSE, !.id = s.id]
         IN [h EXCEPT
                !.objs = [h.objs EXCEPT ![self] = [s1 EXCEPT !.tracks = tracks],
                                        ![other] = [o1 EXCEPT !.tracks = tracks]]]

\* observe(self, other_obj) on the heap h = [objs, root, hits]; self and other
\* are heap indices.  root and hits are history, not program state: root[i]
\* is the smallest index of the objects that i was unified with by observe
\* calls that were not no-ops (its track); hits is left to frame_update.
Observe(h, self, other) ==
    LET s == h.objs[self]
        o == h.objs[other]
    IN IF ~s.new_observation /\ ~o.new_observation THEN h
       ELSE
         LET tracks == SortTracks(o.tracks \o s.tracks)
             s1 == IF date_created(o) < date_created(s)
                   THEN [s EXCEPT !.new_observation = FALSE, !.id = o.id]
                   ELSE s
             o1 == IF date_created(o) < date_created(s)
                   THEN o
                   ELSE [o EXCEPT !.new_observation = FALSE, !.id = s.id]
             r == Min(h.root[self], h.root[other])
         IN [h EXCEPT
                !.objs = [h.objs EXCEPT ![self] = [s1 EXCEPT !.tracks = tracks],
                                        ![other] = [o1 EXCEPT !.tracks = tracks]],
                !.root = [i \in 1..Len(h.root) |->
                             IF h.root[i] \in {h.root[self], h.root[other]}
                             THEN r ELSE h.root[i]]]

\* ---------------------------------------------------------- ObjectTracker
\* get_id for the identifiers `taken` by objects of the active Frames: the
\* loop over the blocks [i-100, i), i = 100, 200, ..., 900.  The free values
\* of a block are listed in the order CPython iterates a set of small
\* integers, ascending, so free[0] is the smallest free value of the block.
\* The function falls off its end (None) when no block has a free value.
\* FirstFree searches v..hi-1 by halves, lower half first, so that a full
\* block of IdBlock values is searched without a deep recursion.
RECURSIVE FirstFree(_, _, _)
FirstFree(v, hi, taken) ==
    IF v >= hi THEN NoneId
    ELSE IF hi - v = 1 THEN (IF v \notin taken THEN v ELSE NoneId)
    ELSE LET mid == (v + hi) \div 2
             low == FirstFree(v, mid, taken)
         IN IF low # NoneId THEN low ELSE FirstFree(mid, hi, taken)

RECURSIVE BlockScan(_, _)
BlockScan(i, taken) ==
    IF i >= IdLimit THEN NoneId
    ELSE IF FirstFree(i - IdBlock, i, taken) # NoneId
         THEN FirstFree(i - IdBlock, i, taken)
         ELSE BlockScan(i + IdBlock, taken)

\* Mutant of get_id: the scan starts at the second block, range(200, ...).
get_id_FromSecondBlock(taken) == BlockScan(2 * IdBlock, taken)

get_id(taken) == BlockScan(IdBlock, taken)

\* |speedA - speedB| < momentum_scale, with speed = sqrt(d2) / (dt / ticks
\* per second).  Written without roots: with u = (TicksPerSecond * dtB)^2 *
\* d2A, v = (TicksPerSecond * dtA)^2 * d2B and c = (MomentumScale * dtA *
\* dtB)^2, |sqrt(u) - sqrt(v)| < sqrt(c) iff u + v - c < 2 * sqrt(u * v).
momentum_match(objA, objB) ==
    IF ~(SpeedTruthy(objA) /\ SpeedTruthy(objB)) THEN FALSE
    ELSE LET dtA == SpeedDt(objA)
             dtB == SpeedDt(objB)
             u == TicksPerSecond * TicksPerSecond * dtB * dtB * SpeedD2(objA)
             v == TicksPerSecond * TicksPerSecond * dtA * dtA * SpeedD2(objB)
             c == MomentumScale * MomentumScale * dtA * dtA * dtB * dtB
         IN \/ u + v - c < 0
            \/ (u + v - c) * (u + v - c) < 4 * u * v

\* Mutant of location_match: the overlap not clamped at zero,
\* interArea = (xB-xA+1) * (yB-yA+1).
location_match_NoClamp(objA, objB) ==
    LET boxA == objA.coords
        boxB == objB.coords
        xA == Max(boxA[1], boxB[1])
        yA == Max(boxA[2], boxB[2])
        xB == Min(boxA[3], boxB[3])
        yB == Min(boxA[4], boxB[4])
        interArea == (xB - xA + 1) * (yB - yA + 1)
        boxAArea == (boxA[3] - boxA[1] + 1) * (boxA[4] - boxA[2] + 1)
        boxBArea == (boxB[3] - boxB[1] + 1) * (boxB[4] - boxB[2] + 1)
        union == boxAArea + boxBArea - interArea
    IN IF union = 0 THEN FALSE
       ELSE IF union > 0 THEN interArea * IouDen > IouNum * union
       ELSE interArea * IouDen < IouNum * union

\* Mutant of location_match: iou >= iou_threshold.
location_match_AtLeast(objA, objB) ==
    LET boxA == objA.coords
        boxB == objB.coords
        xA == Max(boxA[1], boxB[1])
        yA == Max(boxA[2], boxB[2])
        xB == Min(boxA[3], boxB[3])
        yB == Min(boxA[4], boxB[4])
        interArea == Max(0, xB - xA + 1) * Max(0, yB - yA + 1)
        boxAArea == (boxA[3] - boxA[1] + 1) * (boxA[4] - boxA[2] + 1)
        boxBArea == (boxB[3] - boxB[1] + 1) * (boxB[4] - boxB[2] + 1)
        union == boxAArea + boxBArea - interArea
    IN IF union = 0 THEN FALSE
       ELSE IF union > 0 THEN interArea * IouDen >= IouNum * union
       ELSE interArea * IouDen <= IouNum * union

\* The body of location_match for iou_threshold = num / den, den > 0:
\* iou > iou_threshold.  A zero union raises ZeroDivisionError, which the
\* except clause turns into no match.
IouAbove(boxA, boxB, num, den) ==
    LET xA == Max(boxA[1], boxB[1])
        yA == Max(boxA[2], boxB[2])
        xB == Min(boxA[3], boxB[3])
        yB == Min(boxA[4], boxB[4])
        interArea == Max(0, xB - xA + 1) * Max(0, yB - yA + 1)
        boxAArea == (boxA[3] - boxA[1] + 1) * (boxA[4] - boxA[2] + 1)
        boxBArea == (boxB[3] - boxB[1] + 1) * (boxB[4] - boxB[2] + 1)
        union == boxAArea + boxBArea - interArea
    IN IF union = 0 THEN FALSE
       ELSE IF union > 0 THEN interArea * den > num * union
       ELSE interArea * den < num * union

\* location_match of the default tracker: iou_threshold = IouNum / IouDen.
location_match(objA, objB) ==
    IouAbove(objA.coords, objB.coords, IouNum, IouDen)

\* Mutant of new_objects: every object of the Frame, merged or not.
new_objects_All(h, frame) == frame.objects

\* _Frame.new_objects: the objects of a Frame still flagged new_observation.
new_objects(h, frame) ==
    SelectSeq(frame.objects, LAMBDA i : h.objs[i].new_observation)

\* The inner loop of frame_update for one obja: `news` is frameB.new_objects
\* as it was when the loop started.  h.hits counts the pairs the momentum
\* pass matched.
RECURSIVE MatchLoop(_, _, _, _)
MatchLoop(h, obja, news, pass) ==
    IF news = <<>> THEN h
    ELSE LET objb == Head(news)
             hit == IF pass = "momentum"
                    THEN momentum_match(h.objs[obja], h.objs[objb])
                    ELSE location_match(h.objs[obja], h.objs[objb])
             h1 == IF hit /\ pass = "momentum"
                   THEN [h EXCEPT !.hits = h.hits + 1] ELSE h
         IN MatchLoop(IF hit THEN Observe(h1, objb, obja) ELSE h1,
                      obja, Tail(news), pass)

\* One pass of frame_update: the outer loop over frameA.objects, in order.
\* The list is walked by halves, first half before second, which is the same
\* left-to-right walk and keeps the recursion shallow for long lists; the
\* test on h.objs has the heap computed before the walk goes on.
RECURSIVE MatchPass(_, _, _, _)
MatchPass(h, objas, frameB, pass) ==
    IF h.objs = <<>> \/ objas = <<>> THEN h
    ELSE IF Len(objas) = 1
         THEN MatchLoop(h, objas[1], new_objects(h, frameB), pass)
    ELSE LET mid == Len(objas) \div 2
             h1 == MatchPass(h, SubSeq(objas, 1, mid), frameB, pass)
         IN MatchPass(h1, SubSeq(objas, mid + 1, Len(objas)), frameB, pass)

frame_update(h, frameA, frameB) ==
    MatchPass(MatchPass(h, frameA.objects, frameB, "momentum"),
              frameA.objects, frameB, "location")

\* The loop of process_new_frame over self.active, with its break.
RECURSIVE UpdateAll(_, _, _)
UpdateAll(h, frames, new_frame) ==
    IF frames = <<>> THEN h
    ELSE LET h1 == frame_update(h, Head(frames), new_frame)
         IN IF Len(new_objects(h1, new_frame)) = 0 THEN h1
            ELSE UpdateAll(h1, Tail(frames), new_frame)

\* ----------------------------------------------------------------- _Frame
\* _convert_to_frame_of_boxes: consecutive groups of four, the rest dropped.
convert_to_frame_of_boxes(array) ==
    IF Len(array) < 4 THEN <<>>
    ELSE [k \in 1..(Len(array) \div 4) |-> SubSeq(array, 4 * k - 3, 4 * k)]

\* The objects (heap indices) held by a list of Frames, and their identifiers.
FrameObjects(frames) ==
    UNION { Range(frames[f].objects) : f \in 1..Len(frames) }
FrameIds(frames, os) == { os[i].id : i \in FrameObjects(frames) }

\* The set get_id builds first: the identifiers of the active Frames' objects
\* that are not None.
TakenIds(frames, os) == FrameIds(frames, os) \ {NoneId}

\* _Frame.__init__: one fresh TrackedObject for each box, every one with the
\* identifier get_id returns while the new Frame is not yet in self.active.
FrameObjs(frame_dict, taken) ==
    LET boxes == convert_to_frame_of_boxes(frame_dict.windows)
    IN [k \in 1..Len(boxes) |->
           NewTrackedObject(boxes[k], frame_dict.date_created, get_id(taken))]

\* The Frame itself: its objects take the heap indices after `base`; fid
\* numbers the Frames in the order they are built (the Frame's identity).
NewFrame(frame_dict, fid, base) ==
    [fid |-> fid,
     timestamp |-> frame_dict.date_created,
     face_count |-> frame_dict.no_faces,
     objects |-> [k \in 1..Len(convert_to_frame_of_boxes(frame_dict.windows))
                     |-> base + k]]

\* Mutant of KeptSlice: the window cut to max_frames Frames, act[-mf:].
KeptSlice_MaxFrames(act, mf) ==
    IF mf = 0 THEN act ELSE SubSeq(act, Max(Len(act) - mf, 0) + 1, Len(act))

\* The two slices of the eviction in process_new_frame, for a window `act`
\* longer than max_frames: act[:-(mf+1)] and act[-(mf+1):].
RetiringSlice(act, mf) == SubSeq(act, 1, Max(Len(act) - (mf + 1), 0))
KeptSlice(act, mf) == SubSeq(act, Max(Len(act) - (mf + 1), 0) + 1, Len(act))

\* Mutant of Loggable: the identifiers of the active Frames are not excluded.
Loggable_NoExclusion(frame, act, os, ms) ==
    SelectSeq(frame.objects, LAMBDA i : time_alive(os[i]) >= ms)

\* log_objects(frame) with self.active = act: the objects it appends to the
\* log, in the Frame's order.
Loggable(frame, act, os, ms) ==
    LET obj_ids == { os[i].id : i \in Range(frame.objects) }
        exc_ids == FrameIds(act, os)
        new_object_ids == obj_ids \ exc_ids
    IN SelectSeq(frame.objects,
                 LAMBDA i : os[i].id \in new_object_ids /\ time_alive(os[i]) >= ms)

\* Mutant of log_objects: the objects put in front of the log.
log_objects_Prepend(log, frame, act, os, ms) ==
    Loggable(frame, act, os, ms) \o log

log_objects(log, frame, act, os, ms) == log \o Loggable(frame, act, os, ms)

\* for frame in retiring: self.log_objects(frame)
RECURSIVE LogAll(_, _, _, _, _)
LogAll(log, retiring, act, os, ms) ==
    IF retiring = <<>> THEN log
    ELSE LogAll(log_objects(log, Head(retiring), act, os, ms),
                Tail(retiring), act, os, ms)

\* Mutant of Reverse: the list left in its order.
Reverse_Not(s) == s

Reverse(s) == [i \in 1..Len(s) |-> s[Len(s) + 1 - i]]

\* ------------------------------------------------------------- the state
VARIABLES
    max_frames,   \* ObjectTracker.max_frames
    min_seconds,  \* ObjectTracker.min_seconds
    active,       \* ObjectTracker.active: the Frames of the window
    object_log,   \* ObjectTracker.object_log: heap indices of logged objects
    objs,         \* the heap: every TrackedObject created so far
    pc,           \* "open", "closing" (inside close's loop), "closed"
    root,         \* history: the track of each object (see Observe)
    retired,      \* history: fids of the Frames passed to log_objects, in order
    nframes,      \* history: number of Frames built so far
    nrec,         \* history: number of records submitted so far
    born,         \* history: the timestamp each object was created with
    lastTime,     \* history: date_created of the last record, -1 if none
    lastFaces,    \* history: no_faces of the last record
    lastBoxes,    \* history: number of whole boxes in its windows field
    order,        \* history: "strict", "nondec" or "none": the order of the
                  \* records' timestamps so far
    momentum_hits \* history: number of pairs matched by the momentum pass

vars == <<max_frames, min_seconds, active, object_log, objs, pc, root, retired,
          nframes, nrec, born, lastTime, lastFaces, lastBoxes, order,
          momentum_hits>>

input == <<nrec, lastTime, lastFaces, lastBoxes, order>>

config == <<max_frames, min_seconds>>

\* ObjectTracker.__init__; max_frames and min_seconds are attributes a caller
\* may set before the stream starts, and stay fixed afterwards.
Init ==
    /\ max_frames \in (0..MaxWindow) \cup {DefaultMaxFrames}
    /\ min_seconds \in 1..MaxMinSeconds
    /\ active = <<>>
    /\ object_log = <<>>
    /\ objs = <<>>
    /\ pc = "open"
    /\ root = <<>>
    /\ retired = <<>>
    /\ nframes = 0
    /\ nrec = 0
    /\ born = <<>>
    /\ lastTime = -1
    /\ lastFaces = 0
    /\ lastBoxes = 0
    /\ order = "strict"
    /\ momentum_hits = 0

NextOrder(t) ==
    IF lastTime = -1 THEN order
    ELSE IF t > lastTime THEN order
    ELSE IF t = lastTime THEN (IF order = "none" THEN "none" ELSE "nondec")
    ELSE "none"

Submitted(frame_dict) ==
    /\ nrec' = nrec + 1
    /\ lastTime' = frame_dict.date_created
    /\ lastFaces' = frame_dict.no_faces
    /\ lastBoxes' = Len(convert_to_frame_of_boxes(frame_dict.windows))
    /\ order' = NextOrder(frame_dict.date_created)

\* Mutant of NoFaces: a record is skipped for holding no box.
NoFaces_ByWindows(frame_dict) ==
    Len(convert_to_frame_of_boxes(frame_dict.windows)) = 0

\* The test that opens process_new_frame: new_frame.get("no_faces") == 0.
NoFaces(frame_dict) == frame_dict.no_faces = 0

\* process_new_frame on a record with no_faces = 0: the early return.
SkipRecord(frame_dict) ==
    /\ pc \in {"open", "closed"}
    /\ nrec < MaxRecords
    /\ NoFaces(frame_dict)
    /\ pc' = "open"
    /\ Submitted(frame_dict)
    /\ UNCHANGED <<config, active, object_log, objs, root, retired, nframes,
                   born, momentum_hits>>

\* process_new_frame on any other record: build the Frame, match it against
\* the active Frames, append it, evict and log.
Ingest(frame_dict) ==
    /\ pc \in {"open", "closed"}
    /\ ~NoFaces(frame_dict)
    /\ LET new_frame == NewFrame(frame_dict, nframes + 1, Len(objs))
           fresh == FrameObjs(frame_dict, TakenIds(active, objs))
           h0 == [objs |-> objs \o fresh,
                  root |-> root \o [k \in 1..Len(fresh) |-> Len(objs) + k],
                  hits |-> momentum_hits]
           h1 == UpdateAll(h0, active, new_frame)
           appended == Append(active, new_frame)
           evict == Len(appended) > max_frames
           retiring == IF evict THEN RetiringSlice(appended, max_frames) ELSE <<>>
           kept == IF evict THEN KeptSlice(appended, max_frames) ELSE appended
       IN /\ objs' = h1.objs
          /\ root' = h1.root
          /\ momentum_hits' = h1.hits
          /\ born' = born \o [k \in 1..Len(fresh) |-> frame_dict.date_created]
          /\ active' = kept
          /\ object_log' = LogAll(object_log, retiring, kept, h1.objs, min_seconds)
          /\ retired' = retired \o [k \in 1..Len(retiring) |-> retiring[k].fid]
    /\ nframes' = nframes + 1
    /\ pc' = "open"
    /\ Submitted(frame_dict)
    /\ UNCHANGED config

\* The stream of the model is MaxRecords records long.
ProcessNewFrame(frame_dict) ==
    /\ nrec < MaxRecords
    /\ Ingest(frame_dict)

\* close: self.active.reverse(), then the while loop, one iteration a step.
CloseStart ==
    /\ pc \in {"open", "closed"}
    /\ active' = Reverse(active)
    /\ pc' = "closing"
    /\ UNCHANGED <<config, object_log, objs, root, retired, nframes, born,
                   input, momentum_hits>>

CloseStep ==
    /\ pc = "closing"
    /\ active # <<>>
    /\ LET frame == active[Len(active)]
           rest == SubSeq(active, 1, Len(active) - 1)
       IN /\ active' = rest
          /\ object_log' = log_objects(object_log, frame, rest, objs, min_seconds)
          /\ retired' = Append(retired, frame.fid)
    /\ UNCHANGED <<config, objs, pc, root, nframes, born, input,
                   momentum_hits>>

CloseReturn ==
    /\ pc = "closing"
    /\ active = <<>>
    /\ pc' = "closed"
    /\ UNCHANGED <<config, active, object_log, objs, root, retired, nframes,
                   born, input, momentum_hits>>

Next ==
    \/ \E frame_dict \in Records : SkipRecord(frame_dict)
    \/ \E frame_dict \in Records : ProcessNewFrame(frame_dict)
    \/ CloseStart
    \/ CloseStep
    \/ CloseReturn

Spec == Init /\ [][Next]_vars

\* close runs to completion once called: nothing else runs in between.
LiveSpec == Spec /\ WF_vars(CloseStep) /\ WF_vars(CloseReturn)

\* ------------------------------------------------------------ properties
Objects == 1..Len(objs)
ActiveObjects == FrameObjects(active)
Logged == Range(object_log)

\* The footprint an object was created with, and the objects of its track.
OwnFootprint(i) == Footprint(objs[i].coords, born[i])
Track(i) == { j \in Objects : root[j] = root[i] }
TrackFirst(i) == SetMin({ born[j] : j \in Track(i) })
TrackLast(i) == -SetMin({ -born[j] : j \in Track(i) })

\* The lifetime of an object in ticks, and min_seconds in ticks.
Lifetime(i) == end_time(objs[i]) - date_created(objs[i])
MinTicks == min_seconds * TicksPerSecond

IsSorted(tr) == \A k \in 1..(Len(tr) - 1) : tr[k].timestamp <= tr[k + 1].timestamp

\* C1: after every completed process_new_frame call the active window holds
\* at most max_frames Frames.
C1_WindowWithinMaxFrames ==
    pc = "open" => Len(active) <= max_frames

\* C2: two objects of the active Frames carry the same identifier only if
\* they belong to one track (they were unified by observe calls).
C2_SharedIdOnlyByMerge ==
    \A i, j \in ActiveObjects :
        objs[i].id = objs[j].id => root[i] = root[j]

\* C3: after track_objects (the default tracker, records with strictly
\* increasing timestamps, then close), every track whose last footprint is
\* at least min_seconds after its first has an object in the log.
C3_LongTracksAreLogged ==
    (pc = "closed" /\ order = "strict" /\ max_frames = DefaultMaxFrames
        /\ min_seconds = 1)
    => \A i \in Objects :
          TrackLast(i) - TrackFirst(i) >= MinTicks
          => \E j \in Logged : root[j] = root[i]

\* C4: no object in the log has end_time - date_created < min_seconds.
C4_NoShortLivedObjectLogged ==
    \A k \in 1..Len(object_log) : Lifetime(object_log[k]) >= MinTicks

\* C4's case: an object seen in two Frames or more whose first and last
\* footprints are less than min_seconds apart was retired and is not in the
\* log, while another object was logged.
C4_Witness ==
    /\ pc = "closed"
    /\ object_log # <<>>
    /\ \E i \in Objects \ Logged :
          /\ Len(objs[i].tracks) >= 2
          /\ Lifetime(i) > 0
          /\ Lifetime(i) < MinTicks

\* C5: two objects of the active Frames that belong to one track have the
\* same history, and it holds the footprint of every object of the track.
C5_AliasesSeeFullTrack ==
    \A i, j \in ActiveObjects :
        root[i] = root[j]
        => /\ objs[i].tracks = objs[j].tracks
           /\ \A m \in Track(i) : OwnFootprint(m) \in Range(objs[i].tracks)

\* C6: after the stream (strictly increasing timestamps, any window size)
\* and close, the history of every logged object is sorted by timestamp and
\* holds the footprint of every object of its track.
C6_LoggedHistoryHoldsWholeTrack ==
    (pc = "closed" /\ order = "strict")
    => \A k \in 1..Len(object_log) :
          /\ IsSorted(objs[object_log[k]].tracks)
          /\ \A m \in Track(object_log[k]) :
                OwnFootprint(m) \in Range(objs[object_log[k]].tracks)

\* The fids of a list of Frames, the Frames retired by the step, and the
\* Frame of the window with a given fid.
Fids(frames) == [k \in 1..Len(frames) |-> frames[k].fid]
LastOf(s, n) == SubSeq(s, Len(s) - n + 1, Len(s))
NewlyRetired == SubSeq(retired', Len(retired) + 1, Len(retired'))
FrameOf(fid) == CHOOSE fr \in Range(active) : fr.fid = fid

\* C7: a process_new_frame call that appends a Frame leaves in the window
\* exactly the max_frames+1 most recently appended Frames, in arrival order
\* (all of them if there are fewer); the others are retired oldest first, and
\* no retired Frame is still in the window.
C7_EvictionKeepsLatestFrames ==
    [][nframes' = nframes + 1 =>
        LET full == Append(Fids(active), nframes')
            keep == Min(max_frames + 1, Len(full))
        IN /\ Fids(active') = LastOf(full, keep)
           /\ \A k \in 1..(Len(active') - 1) : active'[k] = FrameOf(active'[k].fid)
           /\ NewlyRetired = SubSeq(full, 1, Len(full) - keep)
           /\ Range(retired') \cap Range(Fids(active')) = {}]_vars

\* C7's case: a call has just evicted a Frame from a window that holds
\* more than one Frame.
C7_Witness ==
    /\ pc = "open"
    /\ retired # <<>>
    /\ Len(active) = max_frames + 1
    /\ Len(active) >= 2

\* C8: every Frame appended to the window is retired exactly once and in the
\* order of arrival, also inside close; close terminates, and the window is
\* empty and every Frame retired when it returns.
C8_EveryFrameRetiredOnceInOrder ==
    /\ [](/\ retired = [k \in 1..Len(retired) |-> k]
          /\ Len(retired) <= nframes
          /\ pc = "closed" => (active = <<>> /\ Len(retired) = nframes))
    /\ (pc = "closing" ~> pc = "closed")

\* C8's case: close has returned after a stream in which one Frame was
\* evicted during ingestion and two more were flushed by close.
C8_Witness ==
    /\ pc = "closed"
    /\ max_frames = 1
    /\ nframes = 3
    /\ retired = <<1, 2, 3>>

\* The objects a retiring Frame must add to the log, given the window and
\* the objects after the step.
MustLog(fid) ==
    LET held == { objs'[i].id : i \in FrameObjects(active') }
    IN SelectSeq(FrameOf(fid).objects,
                 LAMBDA i : /\ objs'[i].id \notin held
                            /\ time_alive(objs'[i]) >= min_seconds)

RECURSIVE MustLogAll(_)
MustLogAll(fids) ==
    IF fids = <<>> THEN <<>>
    ELSE MustLog(Head(fids)) \o MustLogAll(Tail(fids))

\* C9: each step appends to the log exactly, for each Frame it retires and
\* in the Frame's object order, the objects whose identifier no object of a
\* still-active Frame holds and whose time_alive >= min_seconds; retiring a
\* Frame inside close changes no object and only takes that Frame out of
\* the window.
C9_RetirementLogsExactly ==
    [][/\ object_log' = object_log \o MustLogAll(NewlyRetired)
       /\ (pc = "closing" /\ retired' # retired)
            => /\ objs' = objs
               /\ active' = SubSeq(active, 1, Len(active) - 1)]_vars

\* C9's case: Frames were retired, one of their objects was logged, another
\* lived long enough but was left out because its identifier is still held
\* in the window, and a third was left out for its short life.
C9_Witness ==
    /\ object_log # <<>>
    /\ \E i \in Objects \ (ActiveObjects \cup Logged) :
          /\ time_alive(objs[i]) >= min_seconds
          /\ objs[i].id \in FrameIds(active, objs)
    /\ \E i \in Objects \ (ActiveObjects \cup Logged) :
          time_alive(objs[i]) < min_seconds

\* C10: a record with no_faces = 0 creates no Frame and no object and leaves
\* the window, the log and every object as they were.
C10_NoFacesRecordChangesNothing ==
    [][(nrec' = nrec + 1 /\ lastFaces' = 0)
        => /\ nframes' = nframes
           /\ UNCHANGED <<active, object_log, objs>>]_vars

\* C10's case: a record with no_faces = 0 whose windows field holds two
\* boxes was submitted to a tracker with Frames in its window.
C10_Witness ==
    /\ lastFaces = 0
    /\ lastBoxes = 2
    /\ nrec >= 2
    /\ active # <<>>
    /\ pc = "open"


\* ------------------------------------------- a window that holds many ids
\* The hundred-wide blocks of get_id and the identifiers it can return.
NumBlocks == (IdLimit - IdBlock) \div IdBlock
IdRange == 0..(NumBlocks * IdBlock - 1)

\* The identifiers held in the window when IdSpec starts: the first n
\* identifiers, n being some full blocks (none, a few, all but one or all)
\* and at most MaxExtra more, less one of them (h) or none (NoneId).
IdPrefixes ==
    { b * IdBlock + e :
        b \in (0..MaxLowBlocks) \cup {NumBlocks - 1, NumBlocks},
        e \in 0..MaxExtra } \cap (0..(NumBlocks * IdBlock))
IdHoles(n) ==
    {NoneId} \cup { v \in {0, IdBlock - 1, IdBlock, n - 1} : 0 <= v /\ v < n }

\* The k-th object of that window: a track seen in two records one second
\* apart (history cut to its first and last footprints, all that
\* date_created, end_time, time_alive and speed read), its box 20 to the
\* right of the previous one, so that no two tracks match; the first box is
\* B0.
IdBox(k) == <<20 * (k - 1), 0, 20 * (k - 1) + 9, 0>>
IdOf(k, h) == IF h # NoneId /\ k - 1 >= h THEN k ELSE k - 1
IdObject(k, h) ==
    [coords |-> IdBox(k), id |-> IdOf(k, h), new_observation |-> FALSE,
     tracks |-> <<Footprint(IdBox(k), 0), Footprint(IdBox(k), TicksPerSecond)>>]

\* A tracker with max_frames = 0 after a stream that left one Frame in its
\* window, the objects of which hold the identifiers above: record k of such
\* a stream holds the boxes of the tracks begun so far and one more, and a
\* track that ends frees its identifier.  The history variables count from
\* this state on, and one record of the stream is left.
IdInit ==
    \E n \in IdPrefixes : \E h \in IdHoles(n) :
      LET m == IF h = NoneId THEN n ELSE n - 1
      IN /\ max_frames = 0
         /\ min_seconds = 1
         /\ objs = [k \in 1..m |-> IdObject(k, h)]
         /\ active = << [fid |-> 1, timestamp |-> TicksPerSecond,
                         face_count |-> 1, objects |-> [k \in 1..m |-> k]] >>
         /\ object_log = <<>>
         /\ pc = "open"
         /\ root = [k \in 1..m |-> k]
         /\ retired = <<>>
         /\ nframes = 1
         /\ nrec = MaxRecords - 1
         /\ born = [k \in 1..m |-> 0]
         /\ lastTime = TicksPerSecond
         /\ lastFaces = 1
         /\ lastBoxes = m
         /\ order = "strict"
         /\ momentum_hits = 0

IdSpec == IdInit /\ [][Next]_vars

\* C11: when a record is ingested while some identifier of 0..899 is held by
\* no object of the active Frames, the identifier its objects are created
\* with (the one an object of the new Frame has while it is still unmerged)
\* is in 0..899, is held by no object of the Frames that were active, and
\* lies in the lowest block that has such a free value.
C11_GetIdReturnsFreeIdOfLowestBlock ==
    [][nframes' = nframes + 1 =>
        LET held == { objs[i].id : i \in FrameObjects(active) }
            free == IdRange \ held
        IN free # {} =>
             \A k \in (Len(objs) + 1)..Len(objs') :
                objs'[k].new_observation =>
                   /\ objs'[k].id \in free
                   /\ \A v \in free :
                         v \div IdBlock >= objs'[k].id \div IdBlock]_vars

\* C11's case: an object was created with the first identifier of the second
\* block while every identifier of the first block was held in the window.
C11_Witness ==
    /\ pc = "open"
    /\ nframes = 2
    /\ \E k \in Objects :
          /\ objs[k].new_observation
          /\ objs[k].id = IdBlock
          /\ \A v \in 0..(IdBlock - 1) :
                \E i \in 1..(k - 1) : objs[i].id = v


\* C16: no TrackedObject has an undefined identifier: with every identifier
\* of 0..899 held in the window, ingesting a record that holds a box does
\* not go through and create one.
C16_NoObjectWithoutIdentifier ==
    \A i \in Objects : objs[i].id # NoneId

\* ------------------------------------------------ observe called directly
\* The identifiers of the objects of ObsInit: the k-th is created with k - 1.
ObsIds(os) == [k \in 1..Len(os) |-> [os[k] EXCEPT !.id = k - 1]]

\* MaxHeap TrackedObjects as their constructor leaves them, outside any
\* Frame, with distinct identifiers.
ObsInit ==
    /\ max_frames = DefaultMaxFrames
    /\ min_seconds = 1
    /\ active = <<>>
    /\ object_log = <<>>
    /\ \E os \in [1..MaxHeap -> { NewTrackedObject(c, t, 0) :
                                     c \in {B0, B2}, t \in Times }] :
          objs = ObsIds(os)
    /\ pc = "open"
    /\ root = [k \in 1..MaxHeap |-> k]
    /\ retired = <<>>
    /\ nframes = 0
    /\ nrec = 0
    /\ born = [k \in 1..MaxHeap |-> date_created(objs[k])]
    /\ lastTime = -1
    /\ lastFaces = 0
    /\ lastBoxes = 0
    /\ order = "strict"
    /\ momentum_hits = 0

\* self.observe(other_obj), for histories of at most MaxTrack footprints.
ObserveCall(self, other) ==
    /\ Len(objs[self].tracks) + Len(objs[other].tracks) <= MaxTrack
    /\ LET h == Observe([objs |-> objs, root |-> root, hits |-> momentum_hits],
                        self, other)
       IN /\ objs' = h.objs
          /\ root' = h.root
    /\ UNCHANGED <<config, active, object_log, pc, retired, nframes, born,
                   input, momentum_hits>>

ObsNext ==
    \E self, other \in Objects : self # other /\ ObserveCall(self, other)

ObsSpec == ObsInit /\ [][ObsNext]_vars

\* The number of entries of a history equal to a footprint.
Count(tr, fp) == Cardinality({ k \in 1..Len(tr) : tr[k] = fp })

\* C12: an observe call on two objects a and b, at least one of them still
\* unmerged, a with the earlier date_created: a keeps its identifier and its
\* flag, b takes a's identifier and is no longer new, and both end with the
\* same history, which is sorted by timestamp and holds the entries of the
\* two previous histories, each as often as they held it together.
C12_ObserveMergesIntoEarlier ==
    [][\A a, b \in Objects :
         (/\ a # b
          /\ objs[a].new_observation \/ objs[b].new_observation
          /\ date_created(objs[a]) < date_created(objs[b])
          /\ \A c \in Objects \ {a, b} : objs'[c] = objs[c])
         => /\ objs'[a].id = objs[a].id
            /\ objs'[a].new_observation = objs[a].new_observation
            /\ objs'[b].id = objs[a].id
            /\ ~objs'[b].new_observation
            /\ objs'[a].tracks = objs'[b].tracks
            /\ IsSorted(objs'[a].tracks)
            /\ Len(objs'[a].tracks) = Len(objs[a].tracks) + Len(objs[b].tracks)
            /\ \A fp \in Range(objs[a].tracks) \cup Range(objs[b].tracks) :
                  Count(objs'[a].tracks, fp)
                  = Count(objs[a].tracks, fp) + Count(objs[b].tracks, fp)]_vars

\* C12's case: an unmerged object took part in two calls; it kept its
\* identifier and its flag, and an object created later carries that
\* identifier, is no longer new and has the same three-entry history.
C12_Witness ==
    \E a, b \in Objects :
       /\ born[a] < born[b]
       /\ objs[a].new_observation
       /\ ~objs[b].new_observation
       /\ objs[a].id = a - 1
       /\ objs[b].id = a - 1
       /\ objs[a].tracks = objs[b].tracks
       /\ Len(objs[a].tracks) = 3


\* ------------------------------------------- a stream of one repeated box
\* track_objects on records that each hold the box B0, with strictly
\* increasing timestamps: up to MaxSameRecords records at ticks 0 to
\* MaxSameTime, then close.
SameBoxRecord(t) ==
    /\ pc = "open"
    /\ nrec < MaxSameRecords
    /\ t > lastTime
    /\ Ingest([no_faces |-> 1, windows |-> B0, date_created |-> t])

SameNext ==
    \/ \E t \in 0..MaxSameTime : SameBoxRecord(t)
    \/ CloseStart
    \/ CloseStep
    \/ CloseReturn

SameSpec == Init /\ [][SameNext]_vars

\* C13: after n >= 2 records of one box with strictly increasing timestamps,
\* the last at least min_seconds after the first, and close, the log holds
\* exactly one object, its time_alive is the whole seconds between the first
\* and the last timestamp, and its history is the n footprints of the
\* records, in order.
C13_OneTrackLoggedWithEveryFootprint ==
    (pc = "closed" /\ nrec >= 2 /\ lastTime - born[1] >= MinTicks)
    => /\ Len(object_log) = 1
       /\ time_alive(objs[object_log[1]]) = (lastTime - born[1]) \div TicksPerSecond
       /\ objs[object_log[1]].tracks = [k \in 1..nrec |-> Footprint(B0, born[k])]


\* ------------------------------------------------------- histories, the log
Timestamps(tr) == { tr[k].timestamp : k \in 1..Len(tr) }

\* C14: on any input, in order or not, the history of every object of an
\* active Frame or of the log is non-empty and sorted ascending by timestamp,
\* so that date_created is its smallest and end_time its largest timestamp.
C14_HistoriesNonEmptyAndSorted ==
    \A i \in ActiveObjects \cup Logged :
       /\ Len(objs[i].tracks) >= 1
       /\ IsSorted(objs[i].tracks)
       /\ \A t \in Timestamps(objs[i].tracks) :
             date_created(objs[i]) <= t /\ t <= end_time(objs[i])

\* C14's case: records arrived out of order, and an object of an active
\* Frame was merged with an object created after it with an earlier
\* timestamp, and with another created with a later one.
C14_Witness ==
    /\ order = "none"
    /\ \E i \in ActiveObjects : \E j, k \in Track(i) :
          /\ born[j] < born[i] /\ j > i
          /\ born[k] > born[i]
          /\ Timestamps(objs[i].tracks) = {born[i], born[j], born[k]}


\* C15: across every step (a process_new_frame call, or an iteration of
\* close) the log before is a prefix of the log after, and every object
\* already in the log has the same identifier and the same history after the
\* step as before it.
C15_LogIsAppendOnly ==
    [][/\ Len(object_log') >= Len(object_log)
       /\ SubSeq(object_log', 1, Len(object_log)) = object_log
       /\ \A k \in 1..Len(object_log) :
             /\ objs'[object_log[k]].id = objs[object_log[k]].id
             /\ objs'[object_log[k]].tracks = objs[object_log[k]].tracks]_vars

\* C15's case: the default window evicts nothing in so short a stream, so
\* the log was filled by a close; a later call then built a Frame whose
\* object reuses the identifier of a logged object.
C15_Witness ==
    /\ max_frames = DefaultMaxFrames
    /\ pc = "open"
    /\ object_log # <<>>
    /\ \E i \in ActiveObjects : \E l \in Logged : objs[i].id = objs[l].id


\* ------------------------------------------------- two boxes, any geometry
\* Boxes with integer corners, degenerate ones included: widths from
\* -MaxX1 + 1 to MaxX2 + 1, heights from -MaxY + 1 to MaxY + 1.
Boxes ==
    { <<x1, y1, x2, y2>> :
        x1 \in 0..MaxX1, y1 \in 0..MaxY, x2 \in 0..MaxX2, y2 \in 0..MaxY }

\* The default tracker.
BoxInit == Init /\ max_frames = DefaultMaxFrames

\* process_new_frame on a one-box record while the window holds at most one
\* Frame: the second record is matched against the first.
BoxRecord(box, t) ==
    /\ Len(active) <= 1
    /\ Ingest([no_faces |-> 1, windows |-> box, date_created |-> t])

BoxNext == \E box \in Boxes, t \in {0, TicksPerSecond} : BoxRecord(box, t)

BoxSpec == BoxInit /\ [][BoxNext]_vars

Width(box) == box[3] - box[1] + 1
Height(box) == box[4] - box[2] + 1
Degenerate(box) == Width(box) <= 0 \/ Height(box) <= 0

\* No object has been merged: each is as its constructor left it.
NoMerge ==
    \A i \in Objects :
       objs[i].new_observation /\ objs[i].tracks = <<OwnFootprint(i)>>

\* C17: when either of two boxes is degenerate (width or height zero or
\* negative), the union area zero included, the second record is ingested
\* and the two objects are not matched; nor would they be with
\* iou_threshold = 0, hence with any iou_threshold >= 0.
C17_DegenerateBoxNeverMatches ==
    (Len(objs) = 2
       /\ (Degenerate(objs[1].coords) \/ Degenerate(objs[2].coords)))
    => /\ NoMerge
       /\ ~IouAbove(objs[1].coords, objs[2].coords, 0, 1)
       /\ ~IouAbove(objs[2].coords, objs[1].coords, 0, 1)

\* C17's case: a box of negative width and a proper box whose areas cancel,
\* so that the union area is zero, were ingested one after the other.
C17_Witness ==
    /\ Len(objs) = 2
    /\ nframes = 2
    /\ Width(objs[1].coords) < 0
    /\ ~Degenerate(objs[2].coords)
    /\ Width(objs[1].coords) * Height(objs[1].coords)
       + Width(objs[2].coords) * Height(objs[2].coords) = 0
    /\ NoMerge

\* The grid cells a box covers, its corners included.
Cells(box) == { <<x, y>> : x \in box[1]..box[3], y \in box[2]..box[4] }
InterCells == Cardinality(Cells(objs[1].coords) \cap Cells(objs[2].coords))
UnionCells == Cardinality(Cells(objs[1].coords) \cup Cells(objs[2].coords))

\* C18: two boxes are matched, and their objects merged, only when the
\* number of cells they share over the number of cells they cover together
\* is strictly greater than iou_threshold; at exactly the threshold there is
\* no match.
C18_MatchOnlyAboveThreshold ==
    (Len(objs) = 2 /\ ~NoMerge)
    => InterCells * IouDen > IouNum * UnionCells

\* C18's case: two boxes whose IOU is exactly the threshold, 4/5, were
\* ingested one after the other and not merged.
C18_Witness ==
    /\ Len(objs) = 2
    /\ nframes = 2
    /\ UnionCells > 0
    /\ InterCells * IouDen = IouNum * UnionCells
    /\ NoMerge


\* ------------------------------------------------------ records in order
InOrder == order \in {"strict", "nondec"}

\* C19: while the records arrive in non-decreasing timestamp order the
\* momentum pass matches no pair, and every still-unmerged object of the
\* Frame ingested last has an undefined speed (its history holds one
\* timestamp only).
C19_NoMomentumMatchInOrder ==
    InOrder
    => /\ momentum_hits = 0
       /\ (pc = "open" /\ active # <<>>)
            => \A i \in Range(active[Len(active)].objects) :
                  objs[i].new_observation => ~SpeedDefined(objs[i])

\* C19's case: three records in order; a track of the window has moved, so
\* its speed is defined and not zero, an object of the last Frame was merged
\* by the location pass, and another, merged with an object of the same
\* timestamp, is still unmerged with a history of several footprints.
C19_Witness ==
    /\ InOrder
    /\ pc = "open"
    /\ nrec = MaxRecords
    /\ momentum_hits = 0
    /\ \E i \in ActiveObjects : SpeedTruthy(objs[i])
    /\ \E i \in Range(active[Len(active)].objects) : ~objs[i].new_observation
    /\ \E i \in Range(active[Len(active)].objects) :
          objs[i].new_observation /\ Len(objs[i].tracks) >= 2


\* C20: while the records arrive in non-decreasing timestamp order, no
\* history holds a footprint more often than objects of its track were
\* created with that footprint: each ingested box is at most one entry.
C20_NoFootprintTwiceInOrder ==
    InOrder
    => \A i \in Objects : \A fp \in Range(objs[i].tracks) :
          Count(objs[i].tracks, fp)
          <= Cardinality({ j \in Track(i) : OwnFootprint(j) = fp })

=============================================================================
